---------------------------- MODULE Spec2Model ----------------------------
(***************************************************************************)
(* Model of sendMessages.ts: the Service Bus sample sender (main and its   *)
(* top-level driver) and the storage LeaseClient that follows it in the    *)
(* same file.  The two components share no state; each has its own         *)
(* specification over the module's variables.                              *)
(***************************************************************************)
EXTENDS Integers, Sequences, FiniteSets, TLC

VARIABLES
    \* ---- sender: main() and the driver ----
    pc,          \* position of main(): "loop", "sending", "closingQueue",
                 \* "closingSb", "settled", "done"
    index,       \* the loop variable of main()
    sent,        \* messages handed to sender.send, in call order
    inFlight,    \* send calls issued and not yet completed
    thrown,      \* exception propagating out of the try block, or NoError
    outcome,     \* main()'s promise: "pending", "fulfilled", "rejected"
    rejection,   \* the error main() rejected with, or NoError
    console,     \* lines written by console.log
    trace,       \* calls made on the messaging SDK and their completions
    \* ---- lease client ----
    handles,     \* LeaseClient instances, in construction order
    created,     \* the constructor arguments of each instance
    calls,       \* requests received by the generated operation objects and
                 \* still awaiting their response
    issued,      \* number of LeaseClient method calls made so far
    result,      \* what the most recently completed call handed to its caller
    accepted,    \* per instance: proposed id of the last change request the
                 \* service accepted, or NoId
    changed      \* per instance: proposed id of the last chanageLease call
                 \* that returned to its caller, or NoId

senderVars == <<pc, index, sent, inFlight, thrown, outcome, rejection, console, trace>>
leaseVars == <<handles, created, calls, issued, result, accepted, changed>>
vars == <<pc, index, sent, inFlight, thrown, outcome, rejection, console, trace,
          handles, created, calls, issued, result, accepted, changed>>

NoError == "none"

(***************************************************************************)
(* Sender                                                                  *)
(***************************************************************************)

listOfScientists ==
    << [name |-> "Einstein",   firstName |-> "Albert"],
       [name |-> "Heisenberg", firstName |-> "Werner"],
       [name |-> "Curie",      firstName |-> "Marie"],
       [name |-> "Hawking",    firstName |-> "Steven"],
       [name |-> "Newton",     firstName |-> "Isaac"],
       [name |-> "Bohr",       firstName |-> "Niels"],
       [name |-> "Faraday",    firstName |-> "Michael"],
       [name |-> "Galilei",    firstName |-> "Galileo"],
       [name |-> "Kepler",     firstName |-> "Johannes"],
       [name |-> "Kopernikus", firstName |-> "Nikolaus"] >>

\* Errors the messaging SDK can raise from send() and from close().
SendErrors == {"MessagingError", "OperationTimeoutError"}
CloseErrors == {"CloseError"}

\* The message built for listOfScientists[index] (index is 0-based in the code).
Message(i) ==
    [body  |-> listOfScientists[i + 1].firstName \o " " \o listOfScientists[i + 1].name,
     label |-> "Scientist"]

SenderInit ==
    /\ pc = "loop"
    /\ index = 0
    /\ sent = <<>>
    /\ inFlight = 0
    /\ thrown = NoError
    /\ outcome = "pending"
    /\ rejection = NoError
    /\ console = <<>>
    /\ trace = <<>>

\* Loop test passes: build the message, log it, call sender.send and suspend.
SendIssue ==
    /\ pc = "loop"
    /\ index < Len(listOfScientists)
    /\ console' = Append(console,
                         "Sending message: " \o Message(index).body \o " - "
                             \o Message(index).label)
    /\ sent' = Append(sent, Message(index))
    /\ inFlight' = inFlight + 1
    /\ trace' = Append(trace, "send")
    /\ pc' = "sending"
    /\ UNCHANGED <<index, thrown, outcome, rejection>>
    /\ UNCHANGED leaseVars

\* Variant of SendOk whose loop step advances by two records.
SendOkSkipsRecord ==
    /\ pc = "sending"
    /\ inFlight' = inFlight - 1
    /\ index' = index + 2
    /\ trace' = Append(trace, "sendOk")
    /\ pc' = "loop"
    /\ UNCHANGED <<sent, thrown, outcome, rejection, console>>
    /\ UNCHANGED leaseVars

\* The awaited send resolves: index++ and back to the loop test.
SendOk ==
    /\ pc = "sending"
    /\ inFlight' = inFlight - 1
    /\ index' = index + 1
    /\ trace' = Append(trace, "sendOk")
    /\ pc' = "loop"
    /\ UNCHANGED <<sent, thrown, outcome, rejection, console>>
    /\ UNCHANGED leaseVars

\* Variant of SendFail for a main() without the finally block: the rejection
\* leaves main() at once and sbClient.close() is never called.
SendFailNoFinally(e) ==
    /\ pc = "sending"
    /\ inFlight' = inFlight - 1
    /\ thrown' = e
    /\ trace' = Append(trace, "sendFail")
    /\ outcome' = "rejected"
    /\ rejection' = e
    /\ pc' = "settled"
    /\ UNCHANGED <<index, sent, console>>
    /\ UNCHANGED leaseVars

\* The awaited send rejects: the exception leaves the try block, skipping the
\* rest of the loop and queueClient.close(); the finally block calls
\* sbClient.close() and suspends on it.
SendFail(e) ==
    /\ pc = "sending"
    /\ inFlight' = inFlight - 1
    /\ thrown' = e
    /\ trace' = trace \o <<"sendFail", "sbClose">>
    /\ pc' = "closingSb"
    /\ UNCHANGED <<index, sent, outcome, rejection, console>>
    /\ UNCHANGED leaseVars

\* Loop test fails: call queueClient.close() and suspend on it.
QueueCloseIssue ==
    /\ pc = "loop"
    /\ index >= Len(listOfScientists)
    /\ trace' = Append(trace, "queueClose")
    /\ pc' = "closingQueue"
    /\ UNCHANGED <<index, sent, inFlight, thrown, outcome, rejection, console>>
    /\ UNCHANGED leaseVars

\* queueClient.close() resolves: the try block ends normally, the finally
\* block calls sbClient.close().
QueueCloseOk ==
    /\ pc = "closingQueue"
    /\ trace' = trace \o <<"queueCloseOk", "sbClose">>
    /\ pc' = "closingSb"
    /\ UNCHANGED <<index, sent, inFlight, thrown, outcome, rejection, console>>
    /\ UNCHANGED leaseVars

\* Variant of QueueCloseFail for a main() without the finally block.
QueueCloseFailNoFinally(e) ==
    /\ pc = "closingQueue"
    /\ thrown' = e
    /\ trace' = Append(trace, "queueCloseFail")
    /\ outcome' = "rejected"
    /\ rejection' = e
    /\ pc' = "settled"
    /\ UNCHANGED <<index, sent, inFlight, console>>
    /\ UNCHANGED leaseVars

\* queueClient.close() rejects: the exception leaves the try block, the
\* finally block calls sbClient.close().
QueueCloseFail(e) ==
    /\ pc = "closingQueue"
    /\ thrown' = e
    /\ trace' = trace \o <<"queueCloseFail", "sbClose">>
    /\ pc' = "closingSb"
    /\ UNCHANGED <<index, sent, inFlight, outcome, rejection, console>>
    /\ UNCHANGED leaseVars

\* sbClient.close() resolves: the finally block completes normally, so the
\* pending exception (if any) is rethrown, else main() fulfils.
SbCloseOk ==
    /\ pc = "closingSb"
    /\ trace' = Append(trace, "sbCloseOk")
    /\ outcome' = IF thrown = NoError THEN "fulfilled" ELSE "rejected"
    /\ rejection' = thrown
    /\ pc' = "settled"
    /\ UNCHANGED <<index, sent, inFlight, thrown, console>>
    /\ UNCHANGED leaseVars

\* sbClient.close() rejects: an exception raised inside finally replaces
\* whatever was propagating out of the try block.
SbCloseFail(e) ==
    /\ pc = "closingSb"
    /\ trace' = Append(trace, "sbCloseFail")
    /\ outcome' = "rejected"
    /\ rejection' = e
    /\ pc' = "settled"
    /\ UNCHANGED <<index, sent, inFlight, thrown, console>>
    /\ UNCHANGED leaseVars

\* main().catch(...): the driver logs a rejection and does nothing else.
DriverCatch ==
    /\ pc = "settled"
    /\ outcome = "rejected"
    /\ console' = Append(console, "Error occurred:  " \o rejection)
    /\ pc' = "done"
    /\ UNCHANGED <<index, sent, inFlight, thrown, outcome, rejection, trace>>
    /\ UNCHANGED leaseVars

\* main() fulfilled: the catch handler is not run.
DriverPass ==
    /\ pc = "settled"
    /\ outcome = "fulfilled"
    /\ pc' = "done"
    /\ UNCHANGED <<index, sent, inFlight, thrown, outcome, rejection, console, trace>>
    /\ UNCHANGED leaseVars

SenderNext ==
    \/ SendIssue
    \/ SendOk
    \/ \E e \in SendErrors : SendFail(e)
    \/ QueueCloseIssue
    \/ QueueCloseOk
    \/ \E e \in CloseErrors : QueueCloseFail(e)
    \/ SbCloseOk
    \/ \E e \in CloseErrors : SbCloseFail(e)
    \/ DriverCatch
    \/ DriverPass

(***************************************************************************)
(* Lease client                                                            *)
(***************************************************************************)

MaxCalls == 2        \* method calls made on a LeaseClient in one behaviour
MaxHandles == 3      \* LeaseClient instances constructed in one behaviour

NoId == "<none>"           \* no lease id in this position
Undefined == "<undefined>" \* the optional constructor argument left out
NoResult == [op |-> "none", outcome |-> "none", leaseId |-> NoId]

\* The clients a LeaseClient can be built from.
Clients ==
    { [kind |-> "ContainerClient", url |-> "https://account.blob/container"],
      [kind |-> "BlobClient",      url |-> "https://account.blob/container/blob"] }

Ids == {"id-a", "id-b"}                 \* lease ids callers supply or propose
Uuids == {"uuid-1", "uuid-2"}           \* values generateUuid() may return
LeaseIdArgs == {Undefined, ""} \cup Ids \* the constructor's leaseId argument
Durations == {15, -1}                   \* acquireLease's duration argument
BreakPeriods == {0}                     \* breakLease's breakPeriod argument
\* Failures of a remote call: the service refuses the request, the transport
\* fails, or the caller's abortSignal fires.
ServiceError == "RestError"
LostErrors == {"TransportError", "AbortError"}

\* JavaScript's !leaseId for a string-or-undefined argument.
Not(leaseId) == leaseId = Undefined \/ leaseId = ""

\* Variant of the constructor that tests the client type the wrong way round.
LeaseClientSwapped(client, leaseId, uuid) ==
    [ _url |-> client.url,
      _containerOrBlobOperation |->
          IF client.kind = "ContainerClient" THEN "Blob" ELSE "Container",
      _leaseId |-> IF Not(leaseId) THEN uuid ELSE leaseId ]

\* Variant of the constructor that generates an id only for undefined.
LeaseClientKeepsEmpty(client, leaseId, uuid) ==
    [ _url |-> client.url,
      _containerOrBlobOperation |->
          IF client.kind = "ContainerClient" THEN "Container" ELSE "Blob",
      _leaseId |-> IF leaseId = Undefined THEN uuid ELSE leaseId ]

\* new LeaseClient(client, leaseId); uuid is what generateUuid() returns
\* when it is called.
LeaseClient(client, leaseId, uuid) ==
    [ _url |-> client.url,
      _containerOrBlobOperation |->
          IF client.kind = "ContainerClient" THEN "Container" ELSE "Blob",
      _leaseId |-> IF Not(leaseId) THEN uuid ELSE leaseId ]

\* generateUuid() is called only when no id was supplied.
UuidsFor(leaseId) == IF Not(leaseId) THEN Uuids ELSE {NoId}

\* A program constructs one more LeaseClient.
Construct(client, leaseId, uuid) ==
    /\ Len(handles) < MaxHandles
    /\ handles' = Append(handles, LeaseClient(client, leaseId, uuid))
    /\ created' = Append(created, [client |-> client, leaseId |-> leaseId, uuid |-> uuid])
    /\ accepted' = Append(accepted, NoId)
    /\ changed' = Append(changed, NoId)
    /\ UNCHANGED <<calls, issued, result>>
    /\ UNCHANGED senderVars

\* The request a method hands to this._containerOrBlobOperation: which
\* operation object receives it, the method invoked on it, and the lease id,
\* proposed lease id and duration / break period among its arguments.
Request(h, op, leaseId, proposedLeaseId, period) ==
    [ n |-> issued + 1,
      h |-> h,
      surface |-> handles[h]._containerOrBlobOperation,
      op |-> op,
      leaseId |-> leaseId,
      proposedLeaseId |-> proposedLeaseId,
      period |-> period,
      status |-> "sent" ]

\* The synchronous part of every method: forward the request and suspend.
Forward(request) ==
    /\ issued < MaxCalls
    /\ calls' = calls \cup {request}
    /\ issued' = issued + 1
    /\ UNCHANGED <<handles, created, result, accepted, changed>>
    /\ UNCHANGED senderVars

\* acquireLease(duration): the current id goes out as the proposed lease id.
acquireLease(h, duration) ==
    Forward(Request(h, "acquireLease", NoId, handles[h]._leaseId, duration))

\* Variant of chanageLease that stores the proposed id before awaiting.
chanageLeaseAssignsEarly(h, proposedLeaseId) ==
    /\ issued < MaxCalls
    /\ calls' = calls \cup
           {Request(h, "changeLease", handles[h]._leaseId, proposedLeaseId, 0)}
    /\ issued' = issued + 1
    /\ handles' = [handles EXCEPT ![h]._leaseId = proposedLeaseId]
    /\ UNCHANGED <<created, result, accepted, changed>>
    /\ UNCHANGED senderVars

\* chanageLease(proposedLeaseId), up to its await.
chanageLease(h, proposedLeaseId) ==
    Forward(Request(h, "changeLease", handles[h]._leaseId, proposedLeaseId, 0))

\* releaseLease().
releaseLease(h) ==
    Forward(Request(h, "releaseLease", handles[h]._leaseId, NoId, 0))

\* renewLease().
renewLease(h) ==
    Forward(Request(h, "renewLease", handles[h]._leaseId, NoId, 0))

\* breakLease(breakPeriod): the options carry no lease id.
breakLease(h, breakPeriod) ==
    Forward(Request(h, "breakLease", NoId, NoId, breakPeriod))

\* The service processes a request and accepts it; an accepted change-lease
\* request makes its proposed id the lease's id at the service.
RemoteAccept(c) ==
    /\ c \in calls
    /\ c.status = "sent"
    /\ calls' = (calls \ {c}) \cup {[c EXCEPT !.status = "accepted"]}
    /\ accepted' = IF c.op = "changeLease"
                   THEN [accepted EXCEPT ![c.h] = c.proposedLeaseId]
                   ELSE accepted
    /\ UNCHANGED <<handles, created, issued, result, changed>>
    /\ UNCHANGED senderVars

\* Variant of Return that adopts the lease id found in the response.
ReturnAdoptsResponseId(c, leaseId) ==
    /\ c \in calls
    /\ c.op # "changeLease"
    /\ c.status = "accepted"
    /\ calls' = calls \ {c}
    /\ result' = [op |-> c.op, outcome |-> "ok", leaseId |-> leaseId]
    /\ handles' = [handles EXCEPT ![c.h]._leaseId = leaseId]
    /\ UNCHANGED <<created, issued, accepted, changed>>
    /\ UNCHANGED senderVars

\* acquireLease, releaseLease, renewLease, breakLease: the awaited response
\* arrives and is returned as it is; leaseId is the id in its headers.
Return(c, leaseId) ==
    /\ c \in calls
    /\ c.op # "changeLease"
    /\ c.status = "accepted"
    /\ calls' = calls \ {c}
    /\ result' = [op |-> c.op, outcome |-> "ok", leaseId |-> leaseId]
    /\ UNCHANGED <<handles, created, issued, accepted, changed>>
    /\ UNCHANGED senderVars

\* Variant of chanageLeaseReturn without the assignment to this._leaseId.
chanageLeaseReturnForgets(c, leaseId) ==
    /\ c \in calls
    /\ c.op = "changeLease"
    /\ c.status = "accepted"
    /\ calls' = calls \ {c}
    /\ changed' = [changed EXCEPT ![c.h] = c.proposedLeaseId]
    /\ result' = [op |-> c.op, outcome |-> "ok", leaseId |-> leaseId]
    /\ UNCHANGED <<handles, created, issued, accepted>>
    /\ UNCHANGED senderVars

\* chanageLease after its await: store the proposed id, return the response.
chanageLeaseReturn(c, leaseId) ==
    /\ c \in calls
    /\ c.op = "changeLease"
    /\ c.status = "accepted"
    /\ calls' = calls \ {c}
    /\ handles' = [handles EXCEPT ![c.h]._leaseId = c.proposedLeaseId]
    /\ changed' = [changed EXCEPT ![c.h] = c.proposedLeaseId]
    /\ result' = [op |-> c.op, outcome |-> "ok", leaseId |-> leaseId]
    /\ UNCHANGED <<created, issued, accepted>>
    /\ UNCHANGED senderVars

\* Variant of Throw in which a failing chanageLease still stores the id.
ThrowStoresProposed(c, e) ==
    /\ c \in calls
    /\ (e = ServiceError) => (c.status = "sent")
    /\ calls' = calls \ {c}
    /\ result' = [op |-> c.op, outcome |-> e, leaseId |-> NoId]
    /\ handles' = IF c.op = "changeLease"
                  THEN [handles EXCEPT ![c.h]._leaseId = c.proposedLeaseId]
                  ELSE handles
    /\ UNCHANGED <<created, issued, accepted, changed>>
    /\ UNCHANGED senderVars

\* The awaited call rejects: no method catches, so the error leaves the
\* method as it is and nothing after the await runs.  The service's own
\* refusal comes instead of acceptance; a transport failure or an abort can
\* also strike after the service accepted the request.
Throw(c, e) ==
    /\ c \in calls
    /\ (e = ServiceError) => (c.status = "sent")
    /\ calls' = calls \ {c}
    /\ result' = [op |-> c.op, outcome |-> e, leaseId |-> NoId]
    /\ UNCHANGED <<handles, created, issued, accepted, changed>>
    /\ UNCHANGED senderVars

LeaseNext ==
    \/ \E h \in DOMAIN handles, d \in Durations : acquireLease(h, d)
    \/ \E h \in DOMAIN handles, id \in Ids : chanageLease(h, id)
    \/ \E h \in DOMAIN handles : releaseLease(h)
    \/ \E h \in DOMAIN handles : renewLease(h)
    \/ \E h \in DOMAIN handles, b \in BreakPeriods : breakLease(h, b)
    \/ \E c \in calls : RemoteAccept(c)
    \/ \E c \in calls, id \in Ids : Return(c, id)
    \/ \E c \in calls, id \in Ids : chanageLeaseReturn(c, id)
    \/ \E c \in calls, e \in {ServiceError} \cup LostErrors : Throw(c, e)

ConstructNext ==
    \E client \in Clients, leaseId \in LeaseIdArgs :
        \E uuid \in UuidsFor(leaseId) : Construct(client, leaseId, uuid)

\* No LeaseClient exists.
LeaseIdle ==
    /\ handles = <<>>
    /\ created = <<>>
    /\ calls = {}
    /\ issued = 0
    /\ result = NoResult
    /\ accepted = <<>>
    /\ changed = <<>>

\* One LeaseClient has been constructed, from any client and any id argument.
LeaseInit ==
    \E client \in Clients, leaseId \in LeaseIdArgs :
        \E uuid \in UuidsFor(leaseId) :
            /\ handles = <<LeaseClient(client, leaseId, uuid)>>
            /\ created = <<[client |-> client, leaseId |-> leaseId, uuid |-> uuid]>>
            /\ calls = {}
            /\ issued = 0
            /\ result = NoResult
            /\ accepted = <<NoId>>
            /\ changed = <<NoId>>

\* The sender has not started in the lease client's specifications.
LeaseSpecInit == LeaseInit /\ SenderInit
ConstructSpecInit == LeaseIdle /\ SenderInit

LeaseSpec == LeaseSpecInit /\ [][LeaseNext]_vars

ConstructSpec == ConstructSpecInit /\ [][ConstructNext]_vars

\* No LeaseClient exists in the sender's specification.
SenderSpecInit == SenderInit /\ LeaseIdle

SenderSpec == SenderSpecInit /\ [][SenderNext]_vars

(***************************************************************************)
(* Sender properties                                                       *)
(***************************************************************************)

Count(ev) == Cardinality({i \in DOMAIN trace : trace[i] = ev})
Before(a, b) == \E i, j \in DOMAIN trace : i < j /\ trace[i] = a /\ trace[j] = b
SendFailed == Count("sendFail") > 0
Settled == pc \in {"settled", "done"}

\* A failed send is the last send: calls k+1..N are never issued.
NoSendAfterFailure ==
    /\ ~Before("sendFail", "send")
    /\ SendFailed => Len(sent) = index + 1

C2_SuccessPath ==
    /\ inFlight \in {0, 1}
    /\ (pc = "sending") <=> (inFlight = 1)
    /\ \A i \in DOMAIN sent : sent[i] = Message(i - 1)
    /\ \A j \in DOMAIN trace :
           (trace[j] = "send" /\ j > 1) => trace[j - 1] = "sendOk"
    /\ (~SendFailed /\ pc \notin {"loop", "sending"}) =>
           (Len(sent) = Len(listOfScientists) /\ Count("sendOk") = Len(listOfScientists))

\* All ten sends succeeded and main() fulfilled.
C2_Witness ==
    /\ pc = "done"
    /\ outcome = "fulfilled"
    /\ Len(sent) = 10
    /\ sent[3].body = "Marie Curie"

\* Ordering facts that hold on every path.
CloseOrdering ==
    /\ ~Before("sbClose", "queueClose")
    /\ ~Before("queueClose", "send")
    /\ ~Before("sbClose", "send")
    /\ Count("queueClose") <= 1
    /\ Count("sbClose") <= 1
    /\ (Count("queueCloseFail") > 0) => Before("queueCloseFail", "sbClose")

C7_Original ==
    (Settled /\ SendFailed) =>
        /\ outcome = "rejected"
        /\ rejection = thrown
        /\ Len(sent) = index + 1
        /\ (pc = "done") => console[Len(console)] = "Error occurred:  " \o thrown

\* A send failed, sbClient.close() failed after it, and the driver logged
\* the rejection of main(), which carries the close error.
C7_Witness == pc = "done" /\ SendFailed /\ rejection \in CloseErrors

(***************************************************************************)
(* Lease client properties                                                 *)
(***************************************************************************)

\* The lease id a request presents to the remote operation: acquireLease
\* sends it as proposedLeaseId, the others as leaseId.
Presented(c) == IF c.op = "acquireLease" THEN c.proposedLeaseId ELSE c.leaseId

\* The requests forwarded by the step, and whether the step completed call c.
NewCalls == {c \in calls' : c.n > issued}
Completed(c) == c \in calls /\ \A d \in calls' : d.n # c.n

\* The id an instance held when its constructor returned.
InitialId(h) ==
    IF created[h].leaseId \in Ids THEN created[h].leaseId ELSE created[h].uuid

\* C3 as stated: once a chanageLease(newId) has returned, every later
\* acquireLease, releaseLease, renewLease, breakLease and chanageLease call
\* presents newId to the remote operation, until the next one returns.
C3_Original ==
    [][\A c \in NewCalls :
           changed[c.h] # NoId => Presented(c) = changed[c.h]]_vars

\* C3 amended: once a chanageLease(newId) has returned, every later
\* acquireLease, releaseLease, renewLease and chanageLease call presents
\* newId to the remote operation, until the next one returns; a breakLease
\* call presents no lease id at all.
C3_AfterChange ==
    [][\A c \in NewCalls :
           /\ (changed[c.h] # NoId /\ c.op # "breakLease") =>
                  Presented(c) = changed[c.h]
           /\ c.op = "breakLease" => Presented(c) = NoId]_vars

\* A release is in flight with the id a returned chanageLease installed,
\* which differs from the id the instance was constructed with.
C3_Witness ==
    /\ Len(handles) = 1
    /\ created[1].leaseId = "id-a"
    /\ changed[1] = "id-b"
    /\ \E c \in calls : c.op = "releaseLease" /\ c.leaseId = "id-b"

C5_Original ==
    \A h \in DOMAIN handles :
        handles[h]._leaseId =
            IF accepted[h] = NoId THEN InitialId(h) ELSE accepted[h]

\* C5 amended: in every reachable state _leaseId is the proposed id of the
\* last chanageLease call that returned to its caller (the constructor's id
\* if none); it trails the service while an accepted change is in flight and
\* stays behind it when the response to an accepted change is lost.
C5_LocalId ==
    \A h \in DOMAIN handles :
        handles[h]._leaseId =
            IF changed[h] = NoId THEN InitialId(h) ELSE changed[h]

\* Two chanageLease calls are over and the instance holds an id that is not
\* the one the service accepted last.
C5_Witness ==
    /\ Len(handles) = 1
    /\ calls = {}
    /\ issued = 2
    /\ changed[1] # NoId
    /\ accepted[1] # NoId
    /\ accepted[1] # changed[1]

\* C8: an instance built from a ContainerClient forwards every request to
\* the Container operations, one built from a BlobClient to the Blob
\* operations, and the choice never changes.
C8_Routing ==
    /\ \A h \in DOMAIN handles :
           /\ created[h].client.kind = "ContainerClient" =>
                  handles[h]._containerOrBlobOperation = "Container"
           /\ created[h].client.kind = "BlobClient" =>
                  handles[h]._containerOrBlobOperation = "Blob"
    /\ \A c \in calls :
           /\ created[c.h].client.kind = "ContainerClient" => c.surface = "Container"
           /\ created[c.h].client.kind = "BlobClient" => c.surface = "Blob"

\* An instance built from a BlobClient has completed one call and has a
\* breakLease in flight on the Blob operations.
C8_Witness ==
    /\ Len(handles) = 1
    /\ created[1].client.kind = "BlobClient"
    /\ result.op = "changeLease"
    /\ \E c \in calls : c.op = "breakLease" /\ c.surface = "Blob"

\* What C9 says of a single construction.
InitialLeaseId ==
    \A h \in DOMAIN handles :
        /\ created[h].leaseId \in Ids => handles[h]._leaseId = created[h].leaseId
        /\ created[h].leaseId \notin Ids =>
               /\ handles[h]._leaseId = created[h].uuid
               /\ handles[h]._leaseId \in Uuids
               /\ handles[h]._leaseId # ""

C10_Frame ==
    [][/\ \A c \in calls :
              (c.op # "changeLease" /\ Completed(c)) => handles' = handles
       /\ NewCalls # {} => handles' = handles
       /\ \A h \in DOMAIN handles :
              handles'[h] # handles[h] =>
                  \E c \in calls :
                      /\ c.h = h
                      /\ c.op = "changeLease"
                      /\ Completed(c)
                      /\ result'.outcome = "ok"
                      /\ handles'[h] =
                             [handles[h] EXCEPT !._leaseId = c.proposedLeaseId]]_vars

\* An acquireLease returned a response carrying another lease id than the
\* one the instance holds.
C10_Witness ==
    /\ Len(handles) = 1
    /\ result.op = "acquireLease"
    /\ result.outcome = "ok"
    /\ result.leaseId # handles[1]._leaseId
    /\ changed[1] = NoId

=============================================================================
